---- MODULE Spec2Model ----
(***************************************************************************)
(* Billing provider lookup and strategy resolution, the webhook dispatch   *)
(* pipeline, the database-webhook verifier selector and the request        *)
(* middleware (CSRF protection and route guards).                          *)
(*                                                                         *)
(* JavaScript values are records: an Error object is                       *)
(* [type |-> "Error", message |-> <<...>>] (a template string is the tuple *)
(* of its parts), null is [type |-> "null", message |-> <<>>].             *)
(***************************************************************************)
EXTENDS Integers, Sequences, FiniteSets, TLC

VARIABLES
    \* ---- provider strategy resolver / billing gateway lookup ----
    importedModules,    \* provider packages initialised by a dynamic import()
    constructed,        \* webhook handler classes instantiated with new
    requested,          \* providers GetProviderStrategy has been called with
    strategyResult,     \* outcome of the last GetProviderStrategy call
    gatewayResult,      \* outcome of the last getBillingGatewayProvider call
    gatewayCreatedWith, \* arguments createBillingGatewayService was called with
    \* ---- webhook dispatch pipeline, one entry per request ----
    pc, envelope, verifiedOk, handleEntered, invoked, dispatchError,
    \* ---- database webhook verifier selector ----
    env,                \* process.env.WEBHOOK_SENDER_PROVIDER
    moduleLoaded,       \* the verifier index module has been evaluated
    senderProvider,     \* the module constant WEBHOOK_SENDER_PROVIDER
    envAtLoad,          \* the environment value when the module was evaluated
    verifierImported,   \* the postgres verifier module has been imported
    verifierResults,    \* outcomes of the getDatabaseWebhookVerifier calls
    \* ---- request middleware ----
    mwRequest, mwResult

resolverVars == <<importedModules, constructed, requested, strategyResult,
                  gatewayResult, gatewayCreatedWith>>
dispatchVars == <<pc, envelope, verifiedOk, handleEntered, invoked, dispatchError>>
verifierVars == <<env, moduleLoaded, senderProvider, envAtLoad, verifierImported,
                  verifierResults>>
mwVars == <<mwRequest, mwResult>>
vars == <<resolverVars, dispatchVars, verifierVars, mwVars>>

(***************************************************************************)
(* JavaScript values                                                       *)
(***************************************************************************)
Null == [type |-> "null", message |-> <<>>]
NewError(msg) == [type |-> "Error", message |-> msg]
PostgrestError == [type |-> "PostgrestError", message |-> <<"PGRST116">>]
NoResult == [kind |-> "none", value |-> Null]
Return(v) == [kind |-> "return", value |-> v]
Throw(v) == [kind |-> "throw", value |-> v]
Instance(class) == [type |-> class, message |-> <<>>]

(***************************************************************************)
(* Provider strategy resolver                                              *)
(***************************************************************************)
SupportedProviders == {"stripe", "lemon-squeezy"}
KnownProviders == {"stripe", "lemon-squeezy", "paddle"}
UnknownProviders == {"", "Stripe", "chargebee"}
Providers == KnownProviders \cup UnknownProviders

\* The package each supported provider's case imports.
ProviderModule(p) == IF p = "stripe" THEN "@kit/stripe" ELSE "@kit/lemon-squeezy"

\* Mutant: the paddle case falls through to the default branch.
GetProviderStrategyPaddleFallsThrough(provider) ==
    CASE provider = "stripe" ->
           [result |-> Return(Instance("StripeWebhookHandlerService")),
            imports |-> {"@kit/stripe"},
            news |-> {"StripeWebhookHandlerService"}]
      [] provider = "lemon-squeezy" ->
           [result |-> Return(Instance("LemonSqueezyWebhookHandlerService")),
            imports |-> {"@kit/lemon-squeezy"},
            news |-> {"LemonSqueezyWebhookHandlerService"}]
      [] OTHER ->
           [result |-> Throw(NewError(<<"Unsupported billing provider: ", provider>>)),
            imports |-> {},
            news |-> {}]

\* Mutant: the default branch falls back to the stripe integration.
GetProviderStrategyDefaultsToStripe(provider) ==
    CASE provider = "lemon-squeezy" ->
           [result |-> Return(Instance("LemonSqueezyWebhookHandlerService")),
            imports |-> {"@kit/lemon-squeezy"},
            news |-> {"LemonSqueezyWebhookHandlerService"}]
      [] provider = "paddle" ->
           [result |-> Throw(NewError(<<"Paddle is not supported yet">>)),
            imports |-> {},
            news |-> {}]
      [] OTHER ->
           [result |-> Return(Instance("StripeWebhookHandlerService")),
            imports |-> {"@kit/stripe"},
            news |-> {"StripeWebhookHandlerService"}]

\* Mutant: every provider package is imported up front.
GetProviderStrategyEagerImports(provider) ==
    CASE provider = "stripe" ->
           [result |-> Return(Instance("StripeWebhookHandlerService")),
            imports |-> {"@kit/stripe", "@kit/lemon-squeezy"},
            news |-> {"StripeWebhookHandlerService"}]
      [] provider = "lemon-squeezy" ->
           [result |-> Return(Instance("LemonSqueezyWebhookHandlerService")),
            imports |-> {"@kit/stripe", "@kit/lemon-squeezy"},
            news |-> {"LemonSqueezyWebhookHandlerService"}]
      [] provider = "paddle" ->
           [result |-> Throw(NewError(<<"Paddle is not supported yet">>)),
            imports |-> {},
            news |-> {}]
      [] OTHER ->
           [result |-> Throw(NewError(<<"Unsupported billing provider: ", provider>>)),
            imports |-> {},
            news |-> {}]

\* BillingEventHandlerFactoryService.GetProviderStrategy: the switch over
\* the provider; result is what the call returns or throws, imports the
\* packages its dynamic import() initialises, news the classes it constructs.
GetProviderStrategy(provider) ==
    CASE provider = "stripe" ->
           [result |-> Return(Instance("StripeWebhookHandlerService")),
            imports |-> {"@kit/stripe"},
            news |-> {"StripeWebhookHandlerService"}]
      [] provider = "lemon-squeezy" ->
           [result |-> Return(Instance("LemonSqueezyWebhookHandlerService")),
            imports |-> {"@kit/lemon-squeezy"},
            news |-> {"LemonSqueezyWebhookHandlerService"}]
      [] provider = "paddle" ->
           [result |-> Throw(NewError(<<"Paddle is not supported yet">>)),
            imports |-> {},
            news |-> {}]
      [] OTHER ->
           [result |-> Throw(NewError(<<"Unsupported billing provider: ", provider>>)),
            imports |-> {},
            news |-> {}]

\* One call of GetProviderStrategy.
Resolve(provider) ==
    LET r == GetProviderStrategy(provider) IN
    /\ importedModules' = importedModules \cup r.imports
    /\ constructed' = constructed \cup r.news
    /\ requested' = requested \cup {provider}
    /\ strategyResult' = [provider |-> provider, result |-> r.result,
                          imports |-> r.imports, news |-> r.news]
    /\ UNCHANGED <<gatewayResult, gatewayCreatedWith>>

(***************************************************************************)
(* Billing gateway lookup                                                  *)
(***************************************************************************)
\* What client.from('config').select('billing_provider').single() yields:
\* an error with no data, or a row whose billing_provider may be null.
NoData == "no-data"
NullColumn == "null"
ConfigReads ==
    {[data |-> NoData, error |-> PostgrestError]} \cup
    {[data |-> v, error |-> Null] : v \in KnownProviders \cup {NullColumn}}

Falsy(v) == v \in {NullColumn, ""}

\* getBillingProvider: if (error ?? !data.billing_provider) throw error.
getBillingProvider(read) ==
    IF (IF read.error # Null THEN TRUE ELSE Falsy(read.data))
    THEN Throw(read.error)
    ELSE Return(read.data)

\* getBillingGatewayProvider: awaits getBillingProvider, then calls
\* createBillingGatewayService with the provider it returned.
getBillingGatewayProvider(read) ==
    LET p == getBillingProvider(read) IN
    /\ gatewayResult' = [read |-> read, provider |-> p,
                         created |-> (p.kind = "return")]
    /\ gatewayCreatedWith' =
         IF p.kind = "return" THEN gatewayCreatedWith \cup {p.value}
         ELSE gatewayCreatedWith
    /\ UNCHANGED <<importedModules, constructed, requested, strategyResult>>

ResolverInit ==
    /\ importedModules = {}
    /\ constructed = {}
    /\ requested = {}
    /\ strategyResult = [provider |-> "<none>", result |-> NoResult,
                         imports |-> {}, news |-> {}]
    /\ gatewayResult = [read |-> [data |-> NoData, error |-> Null],
                        provider |-> NoResult, created |-> FALSE]
    /\ gatewayCreatedWith = {}

(***************************************************************************)
(* Webhook dispatch pipeline (per request):                                *)
(* Received -> Verifying -> (Rejected | Verified) -> Normalizing ->        *)
(* Dispatching -> (Completed | CallbackFailed)                             *)
(***************************************************************************)
MaxRequests == 2
Requests == 1..MaxRequests

Signatures == {"valid", "mismatch", "missing-secret", "malformed"}
CanonicalEvents == {"CheckoutCompleted", "SubscriptionUpdated", "SubscriptionDeleted",
                    "PaymentSucceeded", "PaymentFailed"}
EventTypes == CanonicalEvents \cup {"unrecognized"}
Envelopes == [signature : Signatures, eventType : EventTypes]

\* The callback of the Callback Set that handleWebhookEvent is given for
\* each canonical event.
CallbackFor(eventType) ==
    CASE eventType = "CheckoutCompleted" -> "onCheckoutSessionCompleted"
      [] eventType = "SubscriptionUpdated" -> "onSubscriptionUpdated"
      [] eventType = "SubscriptionDeleted" -> "onSubscriptionDeleted"
      [] eventType = "PaymentSucceeded" -> "onPaymentSucceeded"
      [] eventType = "PaymentFailed" -> "onPaymentFailed"

\* Mutant: a failed verification is logged and the request carries on.
AfterVerifyNoShortCircuit(e) == "Verified"

\* verifyWebhookSignature throws when the signature is invalid, and the
\* throw ends the request.
AfterVerify(e) == IF e.signature = "valid" THEN "Verified" ELSE "Rejected"

Receive(r, e) ==
    /\ pc[r] = "Idle"
    /\ pc' = [pc EXCEPT ![r] = "Received"]
    /\ envelope' = [envelope EXCEPT ![r] = e]
    /\ UNCHANGED <<verifiedOk, handleEntered, invoked, dispatchError>>

StartVerify(r) ==
    /\ pc[r] = "Received"
    /\ pc' = [pc EXCEPT ![r] = "Verifying"]
    /\ UNCHANGED <<envelope, verifiedOk, handleEntered, invoked, dispatchError>>

Verify(r) ==
    /\ pc[r] = "Verifying"
    /\ pc' = [pc EXCEPT ![r] = AfterVerify(envelope[r])]
    /\ verifiedOk' = [verifiedOk EXCEPT ![r] = (envelope[r].signature = "valid")]
    /\ dispatchError' = [dispatchError EXCEPT ![r] =
            IF AfterVerify(envelope[r]) = "Rejected"
            THEN "SignatureVerificationError" ELSE @]
    /\ UNCHANGED <<envelope, handleEntered, invoked>>

\* handleWebhookEvent is entered with the verified payload.
Normalize(r) ==
    /\ pc[r] = "Verified"
    /\ pc' = [pc EXCEPT ![r] = "Normalizing"]
    /\ handleEntered' = [handleEntered EXCEPT ![r] = TRUE]
    /\ UNCHANGED <<envelope, verifiedOk, invoked, dispatchError>>

Classify(r) ==
    /\ pc[r] = "Normalizing"
    /\ pc' = [pc EXCEPT ![r] = "Dispatching"]
    /\ UNCHANGED <<envelope, verifiedOk, handleEntered, invoked, dispatchError>>

\* The matching callback is awaited; an unrecognized event type is ignored.
Dispatch(r, callbackThrows) ==
    /\ pc[r] = "Dispatching"
    /\ IF envelope[r].eventType \in CanonicalEvents
       THEN /\ invoked' = [invoked EXCEPT ![r] = @ \cup {CallbackFor(envelope[r].eventType)}]
            /\ pc' = [pc EXCEPT ![r] = IF callbackThrows THEN "CallbackFailed" ELSE "Completed"]
            /\ dispatchError' = [dispatchError EXCEPT ![r] =
                    IF callbackThrows THEN "CallbackError" ELSE @]
       ELSE /\ pc' = [pc EXCEPT ![r] = "Completed"]
            /\ UNCHANGED <<invoked, dispatchError>>
    /\ UNCHANGED <<envelope, verifiedOk, handleEntered>>

DispatchInit ==
    /\ pc = [r \in Requests |-> "Idle"]
    /\ envelope = [r \in Requests |-> [signature |-> "none", eventType |-> "none"]]
    /\ verifiedOk = [r \in Requests |-> FALSE]
    /\ handleEntered = [r \in Requests |-> FALSE]
    /\ invoked = [r \in Requests |-> {}]
    /\ dispatchError = [r \in Requests |-> "none"]

(***************************************************************************)
(* Database webhook verifier selector                                      *)
(***************************************************************************)
MaxCalls == 3
Unset == "<unset>"
NotEvaluated == "<not evaluated>"
EnvValues == {Unset, "postgres", "", "Postgres", "mysql", "supabase"}

\* Mutant: the default is applied with || instead of ??.
SenderProviderFromEnvOr(e) == IF e \in {Unset, ""} THEN "postgres" ELSE e

\* process.env.WEBHOOK_SENDER_PROVIDER ?? 'postgres'
SenderProviderFromEnv(e) == IF e = Unset THEN "postgres" ELSE e

\* Mutant: the selector is read from the environment on every call.
SelectorAtCallFromEnv(const, e) == SenderProviderFromEnv(e)

\* The selector a call switches on: the module constant.
SelectorAtCall(const, e) == const

\* The switch of getDatabaseWebhookVerifier.
VerifierFor(selector) ==
    IF selector = "postgres"
    THEN [result |-> Return(Instance("PostgresDatabaseWebhookVerifierService")),
          imports |-> TRUE]
    ELSE [result |-> Throw(NewError(<<"Invalid WEBHOOK_SENDER_PROVIDER: ", selector>>)),
          imports |-> FALSE]

\* The module is evaluated once, on its first import.
LoadVerifierModule ==
    /\ ~moduleLoaded
    /\ moduleLoaded' = TRUE
    /\ senderProvider' = SenderProviderFromEnv(env)
    /\ envAtLoad' = env
    /\ UNCHANGED <<env, verifierImported, verifierResults>>

\* The process environment is changed while the process runs.
SetEnv(v) ==
    /\ v # env
    /\ env' = v
    /\ UNCHANGED <<moduleLoaded, senderProvider, envAtLoad, verifierImported, verifierResults>>

getDatabaseWebhookVerifier ==
    /\ moduleLoaded
    /\ Len(verifierResults) < MaxCalls
    /\ LET v == VerifierFor(SelectorAtCall(senderProvider, env)) IN
       /\ verifierResults' = Append(verifierResults, v.result)
       /\ verifierImported' = (verifierImported \/ v.imports)
    /\ UNCHANGED <<env, moduleLoaded, senderProvider, envAtLoad>>

VerifierInit ==
    /\ env \in EnvValues
    /\ moduleLoaded = FALSE
    /\ senderProvider = NotEvaluated
    /\ envAtLoad = NotEvaluated
    /\ verifierImported = FALSE
    /\ verifierResults = <<>>

VerifierInitFixed ==
    /\ env = Unset
    /\ moduleLoaded = FALSE
    /\ senderProvider = NotEvaluated
    /\ envAtLoad = NotEvaluated
    /\ verifierImported = FALSE
    /\ verifierResults = <<>>

(***************************************************************************)
(* Request middleware.  A URL is the sequence of its characters after the  *)
(* origin.                                                                 *)
(***************************************************************************)
AdminPrefix == <<"/", "a", "d", "m", "i", "n">>
AuthPrefix == <<"/", "a", "u", "t", "h">>
HomePrefix == <<"/", "h", "o", "m", "e">>
SignInPath == <<"/", "a", "u", "t", "h", "/", "s", "i", "g", "n", "-", "i", "n">>
VerifyMfaPath == <<"/", "a", "u", "t", "h", "/", "v", "e", "r", "i", "f", "y">>
HomePath == <<"/", "h", "o", "m", "e">>
NotFoundPath == <<"/", "4", "0", "4">>
NextQuery == <<"?", "n", "e", "x", "t", "=", "/", "a", "d", "m", "i", "n">>

Pathnames ==
    { <<"/">>,
      <<"/", "a", "d", "m", "i", "n">>,
      <<"/", "a", "d", "m", "i", "n", "/", "u", "s", "e", "r", "s">>,
      <<"/", "a", "d", "m", "i", "n", "i", "s", "t", "r", "a", "t", "o", "r">>,
      <<"/", "a", "d", "m">>,
      <<"/", "A", "d", "m", "i", "n">>,
      <<"/", "x", "/", "a", "d", "m", "i", "n">>,
      <<"/", "h", "o", "m", "e">>,
      <<"/", "h", "o", "m", "e", "/", "s", "e", "t", "t", "i", "n", "g", "s">>,
      <<"/", "a", "u", "t", "h", "/", "s", "i", "g", "n", "-", "i", "n">>,
      <<"/", "a", "u", "t", "h", "/", "v", "e", "r", "i", "f", "y">>,
      <<"/", "p", "r", "i", "c", "i", "n", "g">> }
Queries == {<<>>, NextQuery}
Urls == {p \o q : p \in Pathnames, q \in Queries}
Methods == {"GET", "POST", "DELETE"}
CsrfTokens == {"valid", "invalid"}
HttpRequests == [url : Urls, method : Methods, nextAction : BOOLEAN, csrfToken : CsrfTokens]

NoUser == "<no user>"
NoRole == "<undefined>"
Roles == {NoRole, "", "member", "super-admin", "Super-Admin"}
\* What supabase.auth.getUser() resolves to, and whether the session
\* requires multi-factor authentication.
AuthStates == [user : {NoUser} \cup Roles, error : BOOLEAN, requiresMfa : BOOLEAN]
\* csrfProtect fails on an invalid token, or for a reason of its own.
CsrfFaults == BOOLEAN

StartsWith(str, prefix) ==
    /\ Len(prefix) <= Len(str)
    /\ SubSeq(str, 1, Len(prefix)) = prefix

RECURSIVE IndexOf(_, _, _)
\* the first index >= i at which ch occurs in str, Len(str) + 1 if none
IndexOf(str, ch, i) ==
    IF i > Len(str) THEN i
    ELSE IF str[i] = ch THEN i
    ELSE IndexOf(str, ch, i + 1)

\* url.split('?')[0], also the pathname of the parsed URL
BeforeQuery(url) == SubSeq(url, 1, IndexOf(url, "?", 1) - 1)
Pathname(request) == BeforeQuery(request.url)

NextResponse == [type |-> "next", status |-> 200, target |-> <<>>]
CsrfRejection == [type |-> "json", status |-> 401, target |-> <<"Invalid CSRF token">>]
Redirect(to) == [type |-> "redirect", status |-> 307, target |-> to]
Undefined == [type |-> "undefined", status |-> 0, target |-> <<>>]
CsrfLibraryError == NewError(<<"csrfProtect failed">>)

isServerAction(request) == request.nextAction

IgnoreMethods(request) ==
    IF isServerAction(request) THEN {"POST"} ELSE {"GET", "HEAD", "OPTIONS"}

\* csrfProtect of @edge-csrf/nextjs: "ok", or the error it throws
csrfProtect(request, fault) ==
    IF fault THEN "Error"
    ELSE IF request.method \in IgnoreMethods(request) THEN "ok"
    ELSE IF request.csrfToken = "valid" THEN "ok"
    ELSE "CsrfError"

\* Mutant: a CSRF error is swallowed and the response passed through.
withCsrfMiddlewareSwallows(request, response, fault) ==
    LET c == csrfProtect(request, fault) IN
    IF c \in {"ok", "CsrfError"} THEN Return(response)
    ELSE Throw(CsrfLibraryError)

withCsrfMiddleware(request, response, fault) ==
    LET c == csrfProtect(request, fault) IN
    IF c = "ok" THEN Return(response)
    ELSE IF c = "CsrfError" THEN Return(CsrfRejection)
    ELSE Throw(CsrfLibraryError)

\* Mutant: the role is not checked.
adminMiddlewareNoRoleCheck(request, response, auth) ==
    IF ~StartsWith(Pathname(request), AdminPrefix) THEN response
    ELSE IF auth.user = NoUser \/ auth.error THEN Redirect(SignInPath)
    ELSE response

adminMiddleware(request, response, auth) ==
    IF ~StartsWith(Pathname(request), AdminPrefix) THEN response
    ELSE IF auth.user = NoUser \/ auth.error THEN Redirect(SignInPath)
    ELSE IF auth.user \in {NoRole, ""} \/ auth.user # "super-admin"
         THEN Redirect(NotFoundPath)
    ELSE response

authHandler(request, response, auth) ==
    IF auth.user = NoUser THEN Undefined
    ELSE IF Pathname(request) # VerifyMfaPath THEN Redirect(HomePath)
    ELSE Undefined

homeHandler(request, response, auth) ==
    IF auth.user = NoUser
    THEN Redirect(SignInPath \o <<"?", "n", "e", "x", "t", "=">> \o Pathname(request))
    ELSE IF auth.requiresMfa THEN Redirect(VerifyMfaPath)
    ELSE Undefined

\* getPatterns: the pathname patterns in order, each with its handler
getPatterns ==
    << [prefix |-> AdminPrefix, handler |-> "adminMiddleware"],
       [prefix |-> AuthPrefix, handler |-> "authHandler"],
       [prefix |-> HomePrefix, handler |-> "homeHandler"] >>

\* new URLPattern({ pathname: prefix + '*' }).exec(input) !== null
PatternMatches(prefix, input) == StartsWith(input, prefix)

RECURSIVE FirstMatch(_, _, _)
FirstMatch(patterns, input, i) ==
    IF i > Len(patterns) THEN "none"
    ELSE IF PatternMatches(patterns[i].prefix, input) THEN patterns[i].handler
    ELSE FirstMatch(patterns, input, i + 1)

matchUrlPattern(url) == FirstMatch(getPatterns, BeforeQuery(url), 1)

CallHandler(name, request, response, auth) ==
    CASE name = "adminMiddleware" -> adminMiddleware(request, response, auth)
      [] name = "authHandler" -> authHandler(request, response, auth)
      [] name = "homeHandler" -> homeHandler(request, response, auth)

\* middleware: what one request yields
MiddlewareRun(request, auth, fault) ==
    LET response == NextResponse
        csrf == withCsrfMiddleware(request, response, fault)
        handlePattern == matchUrlPattern(request.url)
        ran == csrf.kind = "return" /\ handlePattern # "none"
        patternHandlerResponse ==
            IF ran THEN CallHandler(handlePattern, request, csrf.value, auth)
            ELSE Undefined
    IN [csrfRaised |-> csrfProtect(request, fault),
        csrf |-> csrf,
        handler |-> handlePattern,
        handlerRan |-> ran,
        handlerResponse |-> patternHandlerResponse,
        outcome |-> IF csrf.kind = "throw" THEN csrf
                    ELSE IF ran /\ patternHandlerResponse # Undefined
                         THEN Return(patternHandlerResponse)
                    ELSE Return(csrf.value)]

middleware(fault) ==
    /\ mwResult.outcome.kind = "none"
    /\ mwResult' = MiddlewareRun(mwRequest.request, mwRequest.auth, fault)
    /\ UNCHANGED mwRequest

NoMwResult ==
    [csrfRaised |-> "none", csrf |-> NoResult, handler |-> "none",
     handlerRan |-> FALSE, handlerResponse |-> Undefined, outcome |-> NoResult]

MwInit ==
    /\ mwRequest = [request |-> [url |-> <<"/">>, method |-> "GET",
                                 nextAction |-> FALSE, csrfToken |-> "valid"],
                    auth |-> [user |-> NoUser, error |-> FALSE, requiresMfa |-> FALSE]]
    /\ mwResult = NoMwResult

\* a request arrives, with the session state it is made in
MwInitAny ==
    /\ mwRequest \in [request : HttpRequests, auth : AuthStates]
    /\ mwResult = NoMwResult

(***************************************************************************)
(* Specifications                                                          *)
(***************************************************************************)
Init == ResolverInit /\ DispatchInit /\ VerifierInitFixed /\ MwInit

Next ==
    \/ \E p \in Providers : Resolve(p) /\ UNCHANGED <<dispatchVars, verifierVars, mwVars>>
    \/ \E read \in ConfigReads :
          getBillingGatewayProvider(read) /\ UNCHANGED <<dispatchVars, verifierVars, mwVars>>

Spec == Init /\ [][Next]_vars

DispatchNext ==
    \/ \E r \in Requests, e \in Envelopes :
          Receive(r, e) /\ UNCHANGED <<resolverVars, verifierVars, mwVars>>
    \/ \E r \in Requests : StartVerify(r) /\ UNCHANGED <<resolverVars, verifierVars, mwVars>>
    \/ \E r \in Requests : Verify(r) /\ UNCHANGED <<resolverVars, verifierVars, mwVars>>
    \/ \E r \in Requests : Normalize(r) /\ UNCHANGED <<resolverVars, verifierVars, mwVars>>
    \/ \E r \in Requests : Classify(r) /\ UNCHANGED <<resolverVars, verifierVars, mwVars>>
    \/ \E r \in Requests, callbackThrows \in BOOLEAN :
          Dispatch(r, callbackThrows) /\ UNCHANGED <<resolverVars, verifierVars, mwVars>>

DispatchSpec == Init /\ [][DispatchNext]_vars

VerifierSpecInit == ResolverInit /\ DispatchInit /\ VerifierInit /\ MwInit

VerifierNext ==
    \/ LoadVerifierModule /\ UNCHANGED <<resolverVars, dispatchVars, mwVars>>
    \/ \E v \in EnvValues : SetEnv(v) /\ UNCHANGED <<resolverVars, dispatchVars, mwVars>>
    \/ getDatabaseWebhookVerifier /\ UNCHANGED <<resolverVars, dispatchVars, mwVars>>

VerifierSpec == VerifierSpecInit /\ [][VerifierNext]_vars

MiddlewareSpecInit == ResolverInit /\ DispatchInit /\ VerifierInitFixed /\ MwInitAny

MiddlewareNext ==
    \E fault \in CsrfFaults :
        middleware(fault) /\ UNCHANGED <<resolverVars, dispatchVars, verifierVars>>

MiddlewareSpec == MiddlewareSpecInit /\ [][MiddlewareNext]_vars

(***************************************************************************)
(* Properties                                                              *)
(***************************************************************************)

\* C1: for every provider identifier outside {stripe, lemon-squeezy,
\* paddle}, GetProviderStrategy throws the "Unsupported billing provider"
\* error naming the identifier, imports no provider package and constructs
\* no webhook handler; while only such identifiers and paddle have been
\* asked for, nothing at all has been imported or constructed.
C1_UnknownProviderRejected ==
    /\ strategyResult.provider \in UnknownProviders =>
          /\ strategyResult.result =
                Throw(NewError(<<"Unsupported billing provider: ", strategyResult.provider>>))
          /\ strategyResult.imports = {}
          /\ strategyResult.news = {}
    /\ requested \cap SupportedProviders = {} =>
          importedModules = {} /\ constructed = {}

C1_Witness ==
    /\ strategyResult.provider = "chargebee"
    /\ strategyResult.result.kind = "throw"
    /\ requested = UnknownProviders

ErrorKindOfUnknown(u) == GetProviderStrategy(u).result.value.type

\* C2 as stated: resolving paddle throws, without importing a package or
\* returning a strategy, an error whose kind differs from the kind of the
\* error thrown for unknown identifiers.
C2_PaddleErrorKindDistinct ==
    strategyResult.provider = "paddle" =>
        /\ strategyResult.result.kind = "throw"
        /\ strategyResult.imports = {}
        /\ strategyResult.news = {}
        /\ \A u \in UnknownProviders :
              strategyResult.result.value.type # ErrorKindOfUnknown(u)

\* C2 as amended: resolving paddle throws, without importing a package or
\* returning a strategy, a plain Error with the message "Paddle is not
\* supported yet"; it has the same kind as the error thrown for unknown
\* identifiers and differs from it in its message only.
C2_PaddleRejectedByMessage ==
    strategyResult.provider = "paddle" =>
        /\ strategyResult.result = Throw(NewError(<<"Paddle is not supported yet">>))
        /\ strategyResult.imports = {}
        /\ strategyResult.news = {}
        /\ \A u \in UnknownProviders :
              /\ strategyResult.result.value.type = ErrorKindOfUnknown(u)
              /\ strategyResult.result.value.message #
                    GetProviderStrategy(u).result.value.message

C2_Witness ==
    /\ strategyResult.provider = "paddle"
    /\ strategyResult.result.kind = "throw"
    /\ importedModules = {}

\* C3: whenever the configuration read returns an error or a null
\* billing_provider, getBillingGatewayProvider throws an actual error value
\* and createBillingGatewayService is not called; it is called only with a
\* non-null provider.
C3_LookupFailsWithError ==
    /\ gatewayResult.provider.kind # "none" =>
          /\ (gatewayResult.read.error # Null \/ gatewayResult.read.data = NullColumn) =>
                /\ gatewayResult.provider.kind = "throw"
                /\ gatewayResult.provider.value.type # "null"
                /\ ~gatewayResult.created
          /\ gatewayResult.created =>
                /\ gatewayResult.read.error = Null
                /\ gatewayResult.read.data \in KnownProviders
    /\ NullColumn \notin gatewayCreatedWith

\* C4: a request whose signature verification fails ends in Rejected and
\* handleWebhookEvent is never entered for it; a callback has been invoked
\* for a request only if the verification of its envelope succeeded.
C4_NoDispatchOnUnverified ==
    \A r \in Requests :
        /\ (handleEntered[r] \/ invoked[r] # {}) =>
              verifiedOk[r] /\ envelope[r].signature = "valid"
        /\ (pc[r] \notin {"Idle", "Received", "Verifying"}
              /\ envelope[r].signature # "valid") =>
              /\ pc[r] = "Rejected"
              /\ ~handleEntered[r]
              /\ invoked[r] = {}

C4_Witness ==
    \E r, q \in Requests :
        /\ pc[r] = "Rejected" /\ envelope[r].signature = "mismatch"
        /\ pc[q] = "Completed" /\ invoked[q] = {"onCheckoutSessionCompleted"}

PostgresVerifier == Return(Instance("PostgresDatabaseWebhookVerifierService"))

\* C5: with WEBHOOK_SENDER_PROVIDER unset (or 'postgres') when the module
\* is evaluated, every call returns the postgres verifier; with any other
\* value, the empty string included, every call throws the error naming
\* that value and the verifier module is never imported; later changes of
\* the environment change nothing, so all calls of a process agree.
C5_VerifierSelector ==
    /\ \A i \in 1..Len(verifierResults) :
          /\ envAtLoad \in {Unset, "postgres"} => verifierResults[i] = PostgresVerifier
          /\ envAtLoad \notin {Unset, "postgres"} =>
                verifierResults[i] =
                    Throw(NewError(<<"Invalid WEBHOOK_SENDER_PROVIDER: ", envAtLoad>>))
          /\ verifierResults[i] = verifierResults[1]
    /\ verifierImported <=>
          (verifierResults # <<>> /\ envAtLoad \in {Unset, "postgres"})

C5_Witness ==
    /\ Len(verifierResults) >= 2
    /\ envAtLoad = ""
    /\ env = Unset
    /\ verifierResults[2].kind = "throw"

\* C6: the provider packages imported so far are exactly those of the
\* supported providers GetProviderStrategy has been called with; a call
\* imports at most the package of its own provider, and a failing call none.
C6_LazyLoading ==
    /\ importedModules = {ProviderModule(p) : p \in requested \cap SupportedProviders}
    /\ strategyResult.imports =
          IF strategyResult.provider \in SupportedProviders
          THEN {ProviderModule(strategyResult.provider)} ELSE {}
    /\ strategyResult.result.kind = "throw" => strategyResult.imports = {}

C6_Witness ==
    /\ requested = {"stripe", "paddle", "chargebee"}
    /\ importedModules = {"@kit/stripe"}
    /\ strategyResult.provider = "stripe"

MwDone == mwResult.outcome.kind # "none"
MwAdminPath == StartsWith(Pathname(mwRequest.request), AdminPrefix)
MwSuperAdmin ==
    /\ mwRequest.auth.user = "super-admin"
    /\ ~mwRequest.auth.error

\* C7: a request whose path starts with '/admin' is matched to
\* adminMiddleware, and whenever middleware returns a response for it: the
\* response is not a redirect only if getUser gave a user, no error and
\* the role 'super-admin'; without a user or with an error it is the
\* redirect to the sign-in page; with a user of any other or no role it is
\* the redirect to '/404'.
C7_AdminGuard ==
    (MwDone /\ MwAdminPath) =>
        /\ mwResult.handler = "adminMiddleware"
        /\ mwResult.outcome.kind = "return" =>
              /\ mwResult.handlerRan
              /\ mwResult.outcome.value.type # "redirect" => MwSuperAdmin
              /\ (mwRequest.auth.user = NoUser \/ mwRequest.auth.error) =>
                    mwResult.outcome.value = Redirect(SignInPath)
              /\ (mwRequest.auth.user # NoUser /\ ~mwRequest.auth.error
                    /\ mwRequest.auth.user # "super-admin") =>
                    mwResult.outcome.value = Redirect(NotFoundPath)

C7_Witness ==
    /\ MwDone /\ MwAdminPath /\ MwSuperAdmin
    /\ Pathname(mwRequest.request) # AdminPrefix
    /\ mwResult.outcome = Return(NextResponse)

\* C8: when csrfProtect raises a CsrfError, withCsrfMiddleware returns a
\* 403 response and not the pass-through response; any other error is
\* rethrown unchanged.
C8_CsrfErrorGives403 ==
    /\ mwResult.csrfRaised = "CsrfError" =>
          /\ mwResult.csrf.kind = "return"
          /\ mwResult.csrf.value # NextResponse
          /\ mwResult.csrf.value.status = 403
    /\ mwResult.csrfRaised = "Error" => mwResult.csrf = Throw(CsrfLibraryError)

\* C9: when csrfProtect raised a CsrfError, middleware returns either the
\* CSRF rejection response or a redirect made by the matched pattern
\* handler, never the pass-through response; the matched pattern handler
\* has been run all the same.
C9_CsrfFailureNeverPassesThrough ==
    mwResult.csrfRaised = "CsrfError" =>
        /\ mwResult.outcome.kind = "return"
        /\ mwResult.outcome.value # NextResponse
        /\ \/ mwResult.outcome.value = CsrfRejection
           \/ /\ mwResult.outcome.value.type = "redirect"
              /\ mwResult.handlerRan
              /\ mwResult.outcome.value = mwResult.handlerResponse
        /\ mwResult.handler # "none" => mwResult.handlerRan

C9_Witness ==
    /\ mwResult.csrfRaised = "CsrfError"
    /\ mwResult.handler = "adminMiddleware"
    /\ mwResult.handlerRan
    /\ MwSuperAdmin
    /\ mwResult.outcome.value = CsrfRejection

====
